---------------------------- MODULE Spec2Model ----------------------------
(***************************************************************************)
(* Model of the alertBot credential relay (ui_bot_handler.py, the two      *)
(* control-surface listeners of main.py and flask_app.py), the             *)
(* authentication coordinator and start-up sequence of TelegramUIBot       *)
(* (main.py), and the message pipeline of attached_assets/main.py.         *)
(***************************************************************************)
EXTENDS Integers, Sequences, FiniteSets, TLC

(***************************************************************************)
(* Bounds of the model.                                                    *)
(***************************************************************************)
MaxMessages == 2
MaxAuthCalls == 2
MaxPosts == 2
MaxEvents == 3
MaxTime == 4

(***************************************************************************)
(* Python values.  None and str are kept apart, so that "the slot holds    *)
(* None" and "the slot holds the empty string" are different states.       *)
(***************************************************************************)
PyNone == [tag |-> "none", val |-> ""]
PyStr(s) == [tag |-> "str", val |-> s]

\* Python truthiness of an optional string: `not v` is true for None and "".
Falsy(v) == v = PyNone \/ v = PyStr("")

Digits == <<"0", "1", "2", "3", "4", "5", "6", "7", "8", "9">>

RECURSIVE NatToStr(_)
NatToStr(n) == IF n < 10 THEN Digits[n + 1]
               ELSE NatToStr(n \div 10) \o Digits[(n % 10) + 1]

\* str(i) for a Python int.
IntToStr(i) == IF i < 0 THEN "-" \o NatToStr(0 - i) ELSE NatToStr(i)

\* An update whose chat carries no id: msg.get("chat", {}).get("id") is None.
NoId == 0

\* str(chat id) as both listeners compute it; str(None) is "None".
ChatIdStr(id) == IF id = NoId THEN PyStr("None") ELSE PyStr(IntToStr(id))

(***************************************************************************)
(* Inputs.                                                                 *)
(***************************************************************************)
Tasks == {"start", "caller"}
Texts == {"+15550100", "12345"}
\* a webhook update may carry no "text" field
NoText == "<absent>"
\* the field of a webhook update that holds its payload: a new message, an
\* edited message, or something else (a channel post, a callback query)
UpdateFields == {"message", "edited_message", "other"}
ChatIds == {7, -7}
EnvTokens == {PyNone, PyStr("tok")}
EnvChatIds == {PyNone, PyStr("7")}
Channels == <<"jobs_a", "  ", "jobs_b">>

VARIABLES
  env_BOT_TOKEN,       \* os.getenv('BOT_TOKEN')
  env_CHAT_ID,         \* os.getenv('CHAT_ID')
  ui_user_response,    \* ui_bot_handler.user_response
  main_user_response,  \* the name user_response of module main
  response_event,      \* ui_bot_handler.response_event (one shared object)
  pc,                  \* position of each task in start()/authenticate()
  bpc,                 \* position of each task in request_input_via_bot
  auth_in_progress,    \* TelegramUIBot._auth_in_progress
  client,              \* TelegramUIBot.client: PyNone until create_client
  authorized,          \* what client.is_user_authorized() reports
  phone_number,        \* local of authenticate(), per task
  code,                \* local of authenticate(), per task
  result,              \* what authenticate() last returned to each task
  final_check,         \* result of the last is_user_authorized() of each task
  signal,              \* history: what sign_in(password='dummy') raised, per task
  entities,            \* local of join_channels()
  chan_idx,            \* loop position of join_channels()
  channel_entities,    \* TelegramUIBot.channel_entities
  handler_registered,  \* number of NewMessage handlers registered
  is_running,          \* TelegramUIBot.is_running
  start_result,        \* what start() returned
  wpc,                 \* the webhook request in progress (flask thread)
  msgs,                \* inbound control messages so far
  calls,               \* authenticate() calls made by the second caller
  last,                \* history: the step just taken
  sets_since_clear,    \* history: response_event.set() calls since the clear
  handled_since_clear, \* history: authorized texts handled since the clear
  overlap,             \* history: a handler straddled the clear
  send_failed,         \* history: the prompt of the current request failed
  broker_calls,        \* history: request_input_via_bot calls per task
  pl,                  \* the message pipeline (attached_assets/main.py)
  disp,                \* the channel watch dispatcher (main.py message_handler)
  unclaimed,           \* history: text set while no caller was suspended
  trail,               \* history: the interactive steps of each authenticate() run
  proc,                \* main(): the two tasks and the teardown
  join_log,            \* history: what join_channels() met, until the client disconnects
  handler_chats        \* the chats the NewMessage handler was registered over

relayVars == <<ui_user_response, main_user_response, response_event>>
authVars == <<pc, bpc, auth_in_progress, client, authorized, phone_number,
              code, result, final_check, signal>>
startVars == <<entities, chan_idx, channel_entities, handler_registered,
               is_running, start_result>>
histVars == <<sets_since_clear, handled_since_clear, overlap, send_failed,
              broker_calls>>
envVars == <<env_BOT_TOKEN, env_CHAT_ID>>
vars == <<envVars, relayVars, authVars, startVars, wpc, msgs, calls, last,
          histVars, pl, disp, unclaimed,
                 trail, proc, join_log, handler_chats>>

Ev(kind, task, chat, text, val) ==
  [kind |-> kind, task |-> task, chat |-> chat, text |-> text, val |-> val,
   field |-> ""]

\* history: a step of telegram_webhook, with the field of the update it took
\* the message from and the "text" entry of that message as it came
WebhookEv(kind, field, chat, text, raw) ==
  [Ev(kind, "", chat, text, IF raw = NoText THEN PyNone ELSE PyStr(raw))
   EXCEPT !.field = field]

PlIdle == [pc |-> "idle", text |-> <<>>, username |-> <<>>, msg |-> <<>>,
           entity |-> <<>>, gen |-> "none", sent |-> <<>>, attempts |-> <<>>,
           posts |-> 0, gen_calls |-> 0, outcome |-> "none",
           reason |-> "none"]

\* The channel-watch dispatcher of main.py: the update queue of the client,
\* the event in the handler's hands, the clock, and the history of arrivals,
\* of process_message calls and of the last rate-limit signal.
DispIdle == [registered |-> FALSE, queue |-> <<>>, cur |-> 0, pc |-> "idle",
             now |-> 0, wake_at |-> 0, events |-> 0, arrived |-> <<>>,
             starts |-> <<>>, flooded |-> FALSE, flood_at |-> 0,
             flood_secs |-> 0, flood_idx |-> 0]

\* main(): the control-surface task (run_ui_bot), main() itself waiting in
\* gather, and whether the coordinator was suspended in the wait when the
\* control-surface task ended
ProcStart == [ui |-> "running", main |-> "gather", hung |-> FALSE]

Init ==
  /\ env_BOT_TOKEN \in EnvTokens
  /\ env_CHAT_ID \in EnvChatIds
  /\ ui_user_response = PyNone
  /\ main_user_response = PyNone
  /\ response_event = FALSE
  /\ pc = [t \in Tasks |-> IF t = "start" THEN "s_new" ELSE "idle"]
  /\ bpc = [t \in Tasks |-> "none"]
  /\ auth_in_progress = FALSE
  /\ client = PyNone
  /\ authorized = FALSE
  /\ phone_number = [t \in Tasks |-> PyNone]
  /\ code = [t \in Tasks |-> PyNone]
  /\ result = [t \in Tasks |-> "unset"]
  /\ final_check = [t \in Tasks |-> "unset"]
  /\ signal = [t \in Tasks |-> "none"]
  /\ entities = <<>>
  /\ chan_idx = 0
  /\ channel_entities = <<>>
  /\ handler_registered = 0
  /\ is_running = FALSE
  /\ start_result = "unset"
  /\ wpc = [pc |-> "idle", text |-> "", chat |-> NoId, fresh |-> FALSE,
            reply |-> "none"]
  /\ msgs = 0
  /\ calls = 0
  /\ last = Ev("init", "", NoId, "", PyNone)
  /\ sets_since_clear = 0
  /\ handled_since_clear = <<>>
  /\ overlap = FALSE
  /\ send_failed = [t \in Tasks |-> FALSE]
  /\ broker_calls = [t \in Tasks |-> 0]
  /\ pl = PlIdle
  /\ disp = DispIdle
  /\ unclaimed = PyNone
  /\ trail = [t \in Tasks |-> <<>>]
  /\ proc = ProcStart
  /\ join_log = <<>>
  /\ handler_chats = <<>>


(***************************************************************************)
(* asyncio.Event.  set() marks the flag and completes the future of every  *)
(* waiter; a waiter whose future is complete resumes even if the flag is   *)
(* cleared again before it runs.                                           *)
(***************************************************************************)
Woken(b) == [t \in Tasks |-> IF b[t] = "b_wait" THEN "b_woken" ELSE b[t]]

\* line 30: response_event.clear()
EventClearMut(ev) == ev
EventClear(ev) == FALSE

\* `await response_event.wait()` returns without suspending iff the flag is set.
WaitReturnsNowMut(ev) == TRUE
WaitReturnsNow(ev) == ev

\* run_ui_bot line 340: handle_ui_bot_message is called only while
\* application.run_webhook is serving
UiServes(ui) == ui = "running"

\* handle_ui_bot_message: str(update.effective_chat.id) == chat_id
MainChatMatches(chat, cfg) == ChatIdStr(chat) = cfg

\* telegram_webhook: chat_id == os.getenv("CHAT_ID")
WebhookChatMatchesMut(chat, cfg) == TRUE
WebhookChatMatches(chat, cfg) == ChatIdStr(chat) = cfg

\* telegram_webhook: what the route answers
OkReply == "200 ok"
BadRequestReply == "400 bad request"
ServerErrorReply == "500 internal server error"
MalformedBodies == {"not_json", "not_provider_shaped"}

\* lines 19-26: the answer after the chat id comparison
WebhookReplyMut(matched) == IF matched THEN OkReply ELSE "403 forbidden"
WebhookReply(matched) == OkReply

\* history: a caller is suspended in response_event.wait()
Suspended(b) == \E t \in Tasks : b[t] \in {"b_wait", "b_woken"}

\* history: the text of a set made while no caller was suspended
NoteUnclaimed(text) == IF Suspended(bpc) THEN unclaimed ELSE PyStr(text)

\* telegram_webhook line 13: data.get("message") or
\* data.get("edited_message"), and line 14, `if not msg`
HasMessage(field) == field \in {"message", "edited_message"}

\* telegram_webhook line 18: text = msg.get("text", "")
WebhookTextMut(text) == text
WebhookText(text) == IF text = NoText THEN "" ELSE text

(***************************************************************************)
(* authenticate(): leaving the try block.  The finally clause clears the   *)
(* re-entrancy flag whatever the result.                                   *)
(***************************************************************************)
AfterAuth(self) == IF self = "start" THEN "s_after_auth" ELSE "idle"

AuthReturn(self, r) ==
  /\ auth_in_progress' = FALSE
  /\ result' = [result EXCEPT ![self] = r]
  /\ pc' = [pc EXCEPT ![self] = AfterAuth(self)]

(***************************************************************************)
(* Remote Input Broker: get_phone_number_from_bot / get_code_from_bot and  *)
(* request_input_via_bot.                                                  *)
(***************************************************************************)
\* history: one interactive step of authenticate()
Step(op, a, b) == [op |-> op, a |-> a, b |-> b]

\* history: the prompt request_input_via_bot sends for the caller at hand
Prompted(self) ==
  Append(trail[self],
         Step(IF pc[self] = "a_get_phone" THEN "prompt_phone"
              ELSE "prompt_code", PyNone, PyNone))

\* main.py lines 97-98: the statement that follows get_phone_number_from_bot
AfterPhoneReturnedMut == "a_get_code"
AfterPhoneReturned == "a_send_code"

\* request_input_via_bot returns user_response to authenticate(); `how`
\* tells whether the wait had suspended, `tr` is the trail so far.
BrokerDeliver(self, how, tr) ==
  /\ bpc' = [bpc EXCEPT ![self] = "none"]
  /\ IF pc[self] = "a_get_phone"
       THEN /\ phone_number' = [phone_number EXCEPT ![self] = ui_user_response]
            /\ pc' = [pc EXCEPT ![self] = AfterPhoneReturned]
            /\ code' = code
            /\ trail' = [trail EXCEPT ![self] =
                           Append(tr, Step("phone", ui_user_response, PyNone))]
       ELSE /\ code' = [code EXCEPT ![self] = ui_user_response]
            /\ pc' = [pc EXCEPT ![self] = "a_sign_in"]
            /\ phone_number' = phone_number
            /\ trail' = [trail EXCEPT ![self] =
                           Append(tr, Step("code", ui_user_response, PyNone))]
  /\ unclaimed' = PyNone
  /\ last' = Ev("broker_return", self, NoId, how, ui_user_response)

\* get_*_from_bot: the configuration check, then line 29, user_response = None.
BrokerStore(self) ==
  /\ pc[self] \in {"a_get_phone", "a_get_code"}
  /\ bpc[self] = "none"
  /\ IF Falsy(env_BOT_TOKEN) \/ Falsy(env_CHAT_ID)
       THEN /\ AuthReturn(self, "False")
            /\ last' = Ev("broker_value_error", self, NoId, "", PyNone)
            /\ UNCHANGED <<ui_user_response, bpc, send_failed, broker_calls>>
       ELSE /\ ui_user_response' = PyNone
            /\ bpc' = [bpc EXCEPT ![self] = "b_clear"]
            /\ send_failed' = [send_failed EXCEPT ![self] = FALSE]
            /\ broker_calls' = [broker_calls EXCEPT ![self] = @ + 1]
            /\ last' = Ev("broker_store", self, NoId, "", PyNone)
            /\ UNCHANGED <<pc, auth_in_progress, result>>
  /\ UNCHANGED <<envVars, main_user_response, response_event, client,
                 authorized, phone_number, code, final_check, signal, startVars,
                 wpc,
                 msgs, calls, sets_since_clear, handled_since_clear, overlap,
                 pl, disp, unclaimed,
                 trail, proc, join_log, handler_chats>>

\* line 30, response_event.clear()
BrokerClear(self) ==
  /\ bpc[self] = "b_clear"
  /\ response_event' = EventClear(response_event)
  /\ bpc' = [bpc EXCEPT ![self] = "b_send"]
  /\ sets_since_clear' = 0
  /\ handled_since_clear' = <<>>
  /\ overlap' = (wpc.pc = "w_set")
  /\ wpc' = [wpc EXCEPT !.fresh = FALSE]
  /\ last' = Ev("broker_clear", self, NoId, "", PyNone)
  /\ UNCHANGED <<envVars, ui_user_response, main_user_response, pc,
                 auth_in_progress, client, authorized, phone_number, code,
                 result, final_check, signal, startVars, msgs, calls, send_failed,
                 broker_calls, pl, disp, unclaimed,
                 trail, proc, join_log, handler_chats>>

\* line 32, await send_telegram_message(...): the send succeeds or fails; a
\* failure is caught and logged inside send_telegram_message.  Then line 35.
BrokerSend(self) ==
  /\ bpc[self] = "b_send"
  /\ \E ok \in BOOLEAN :
       send_failed' = [send_failed EXCEPT ![self] = ~ok]
  /\ IF WaitReturnsNow(response_event)
       THEN BrokerDeliver(self, "immediate", Prompted(self))
       ELSE /\ bpc' = [bpc EXCEPT ![self] = "b_wait"]
            /\ trail' = [trail EXCEPT ![self] = Prompted(self)]
            /\ last' = Ev("broker_wait", self, NoId, "", PyNone)
            /\ UNCHANGED <<pc, phone_number, code, unclaimed>>
  /\ UNCHANGED <<envVars, relayVars, auth_in_progress, client, authorized,
                 result, final_check, signal, startVars, wpc, msgs, calls,
                 sets_since_clear, handled_since_clear, overlap,
                 broker_calls, pl, disp,
                 proc, join_log, handler_chats>>

\* lines 35-37: the suspended wait resumes and user_response is returned.
BrokerResume(self) ==
  /\ bpc[self] = "b_woken"
  /\ BrokerDeliver(self, "resumed", trail[self])
  /\ UNCHANGED <<envVars, relayVars, auth_in_progress, client, authorized,
                 result, final_check, signal, startVars, wpc, msgs, calls, histVars,
                 pl, disp,
                 proc, join_log, handler_chats>>

(***************************************************************************)
(* Control Surface Listeners.                                              *)
(***************************************************************************)
\* handle_ui_bot_message runs on the event loop of the broker, so never
\* between lines 29 and 30 of request_input_via_bot; run_ui_bot registers it
\* only when BOT_TOKEN is set.  `global user_response` binds the name of
\* module main, not ui_bot_handler.user_response.
MainHandler(chat, text) ==
  /\ msgs < MaxMessages
  /\ ~Falsy(env_BOT_TOKEN)
  /\ UiServes(proc.ui)
  /\ \A t \in Tasks : bpc[t] # "b_clear"
  /\ msgs' = msgs + 1
  /\ IF Falsy(env_CHAT_ID)
       THEN /\ last' = Ev("main_config_error", "", chat, text, PyNone)
            /\ UNCHANGED <<main_user_response, response_event, bpc,
                           sets_since_clear, handled_since_clear, unclaimed>>
       ELSE IF MainChatMatches(chat, env_CHAT_ID)
         THEN /\ main_user_response' = PyStr(text)
              /\ response_event' = TRUE
              /\ bpc' = Woken(bpc)
              /\ sets_since_clear' = sets_since_clear + 1
              /\ handled_since_clear' = Append(handled_since_clear, text)
              /\ unclaimed' = NoteUnclaimed(text)
              /\ last' = Ev("main_set", "", chat, text, PyNone)
         ELSE /\ last' = Ev("main_rejected", "", chat, text, PyNone)
              /\ UNCHANGED <<main_user_response, response_event, bpc,
                             sets_since_clear, handled_since_clear,
                             unclaimed>>
  /\ UNCHANGED <<envVars, ui_user_response, pc, auth_in_progress, client,
                 authorized, phone_number, code, result, final_check, signal,
                 startVars, wpc, calls, overlap, send_failed, broker_calls,
                 pl, disp,
                 trail, proc, join_log, handler_chats>>

\* telegram_webhook up to line 21 (flask serves it on a thread of its own, so
\* it interleaves with every step of the event loop).
WebhookReceive(field, chat, text) ==
  /\ wpc.pc = "idle"
  /\ msgs < MaxMessages
  /\ msgs' = msgs + 1
  /\ IF ~HasMessage(field)
       THEN /\ last' = WebhookEv("webhook_no_message", field, NoId, "",
                                    NoText)
            /\ wpc' = [wpc EXCEPT !.reply = OkReply]
            /\ UNCHANGED ui_user_response
       ELSE IF WebhookChatMatches(chat, env_CHAT_ID)
         THEN /\ ui_user_response' = PyStr(WebhookText(text))
              /\ wpc' = [pc |-> "w_set", text |-> WebhookText(text),
                         chat |-> chat, fresh |-> TRUE, reply |-> "none"]
              /\ last' = WebhookEv("webhook_store", field, chat,
                                   WebhookText(text), text)
         ELSE /\ last' = WebhookEv("webhook_rejected", field, chat,
                                   WebhookText(text), text)
              /\ wpc' = [wpc EXCEPT !.reply = WebhookReply(FALSE)]
              /\ UNCHANGED ui_user_response
  /\ UNCHANGED <<envVars, main_user_response, response_event, authVars,
                 startVars, calls, histVars, pl, disp, unclaimed,
                 trail, proc, join_log, handler_chats>>

\* telegram_webhook line 22, response_event.set(), and the reply.
WebhookSet ==
  /\ wpc.pc = "w_set"
  /\ response_event' = TRUE
  /\ bpc' = Woken(bpc)
  /\ sets_since_clear' = sets_since_clear + 1
  /\ IF wpc.fresh
       THEN /\ handled_since_clear' = Append(handled_since_clear, wpc.text)
            /\ overlap' = overlap
       ELSE /\ overlap' = TRUE
            /\ handled_since_clear' = handled_since_clear
  /\ wpc' = [pc |-> "idle", text |-> "", chat |-> NoId, fresh |-> FALSE,
             reply |-> WebhookReply(TRUE)]
  /\ unclaimed' = NoteUnclaimed(wpc.text)
  /\ last' = Ev("webhook_set", "", wpc.chat, wpc.text, PyNone)
  /\ UNCHANGED <<envVars, ui_user_response, main_user_response, pc,
                 auth_in_progress, client, authorized, phone_number, code,
                 result, final_check, signal, startVars, msgs, calls, send_failed,
                 broker_calls, pl, disp,
                 trail, proc, join_log, handler_chats>>

\* telegram_webhook line 12 and line 13: get_json(force=True) refuses a body
\* that is not JSON (400), and a body that is not provider-shaped (a JSON
\* array, a message that is no object) raises in .get (500).
WebhookMalformed(kind) ==
  /\ wpc.pc = "idle"
  /\ msgs < MaxMessages
  /\ msgs' = msgs + 1
  /\ wpc' = [wpc EXCEPT !.reply = IF kind = "not_json" THEN BadRequestReply
                                  ELSE ServerErrorReply]
  /\ last' = Ev("webhook_malformed", "", NoId, kind, PyNone)
  /\ UNCHANGED <<envVars, relayVars, authVars, startVars, calls, histVars,
                 pl, disp, unclaimed,
                 trail, proc, join_log, handler_chats>>


(***************************************************************************)
(* Authentication Coordinator: TelegramUIBot.authenticate.                 *)
(***************************************************************************)
\* how a Python bool is recorded in the history variables
BoolStr(b) == IF b THEN "True" ELSE "False"

\* the positions of a task inside the try block of authenticate()
AuthBodyPcs == {"a_start", "a_check1", "a_dummy", "a_get_phone",
                "a_send_code", "a_get_code", "a_sign_in", "a_check2",
                "a_final"}

\* line 71: if self._auth_in_progress
GuardRejectsMut(flag) == FALSE
GuardRejects(flag) == flag

\* lines 127-131: the value authenticate() returns after its final check
AuthOutcome(auth) == IF auth THEN "True" ELSE "False"

\* line 119: the branch taken after the interactive flow
InteractiveFlowOk(auth) == auth

\* the errors line 89 catches, and what lines 93-117 do with each
PhoneCodeErrors == {"PhoneCodeEmptyError", "PhoneCodeExpiredError"}
PasswordErrors == {"SessionPasswordNeededError", "PasswordHashInvalidError"}
DummySignInOutcomes == {"ok", "other"} \cup PhoneCodeErrors \cup PasswordErrors

\* lines 93 and 106: which caught errors start the phone/code dialogue
AsksForPhoneMut(e) == e \in PhoneCodeErrors \/ e = "SessionPasswordNeededError"
AsksForPhone(e) == e \in PhoneCodeErrors

otherAuthUnchanged == <<envVars, relayVars, bpc, phone_number, code,
                        startVars, wpc, msgs, histVars, pl, disp, unclaimed,
                 proc, join_log, handler_chats>>

\* lines 71-75: the guard, and taking the flag
AuthEnter(self) ==
  /\ \/ self = "start" /\ pc[self] = "a_call"
     \/ self = "caller" /\ pc[self] = "idle" /\ calls < MaxAuthCalls
  /\ calls' = IF self = "caller" THEN calls + 1 ELSE calls
  /\ IF GuardRejects(auth_in_progress)
       THEN /\ result' = [result EXCEPT ![self] = "None"]
            /\ pc' = [pc EXCEPT ![self] = AfterAuth(self)]
            /\ last' = Ev("auth_rejected", self, NoId, "", PyNone)
            /\ UNCHANGED <<auth_in_progress, signal, final_check, trail>>
       ELSE /\ auth_in_progress' = TRUE
            /\ pc' = [pc EXCEPT ![self] = "a_start"]
            /\ signal' = [signal EXCEPT ![self] = "none"]
            /\ final_check' = [final_check EXCEPT ![self] = "unset"]
            /\ result' = [result EXCEPT ![self] = "unset"]
            /\ trail' = [trail EXCEPT ![self] = <<>>]
            /\ last' = Ev("auth_enter", self, NoId, "", PyNone)
  /\ UNCHANGED <<envVars, relayVars, bpc, client, authorized, phone_number,
                 code, startVars, wpc, msgs, histVars, pl, disp, unclaimed,
                 proc, join_log, handler_chats>>

\* line 78: await self.client.start()
ClientStart(self) ==
  /\ pc[self] = "a_start"
  /\ IF client = PyNone
       THEN /\ AuthReturn(self, "False")
            /\ last' = Ev("auth_error", self, NoId, "", PyNone)
            /\ UNCHANGED authorized
       ELSE \E out \in {"resumed", "not_authorized", "error"} :
              /\ last' = Ev("client_start", self, NoId, out, PyNone)
              /\ IF out = "error"
                   THEN AuthReturn(self, "False") /\ UNCHANGED authorized
                   ELSE /\ pc' = [pc EXCEPT ![self] = "a_check1"]
                        /\ authorized' = (authorized \/ out = "resumed")
                        /\ UNCHANGED <<auth_in_progress, result>>
  /\ UNCHANGED <<otherAuthUnchanged, client, final_check, signal, calls,
                 trail>>

\* line 81: if not await self.client.is_user_authorized()
Check1(self) ==
  /\ pc[self] = "a_check1"
  /\ final_check' = [final_check EXCEPT ![self] = BoolStr(authorized)]
  /\ pc' = [pc EXCEPT ![self] = IF authorized THEN "a_final" ELSE "a_dummy"]
  /\ last' = Ev("check1", self, NoId, "", PyNone)
  /\ UNCHANGED <<otherAuthUnchanged, auth_in_progress, client, authorized,
                 result, signal, calls, trail>>

\* lines 86-117: sign_in(password='dummy') and the handling of what it raises
DummySignIn(self) ==
  /\ pc[self] = "a_dummy"
  /\ \E out \in DummySignInOutcomes :
       /\ signal' = [signal EXCEPT ![self] = out]
       /\ last' = Ev("dummy_sign_in", self, NoId, out, PyNone)
       /\ IF out = "other"
            THEN AuthReturn(self, "False") /\ UNCHANGED authorized
            ELSE /\ pc' = [pc EXCEPT ![self] =
                             IF AsksForPhone(out) THEN "a_get_phone"
                             ELSE "a_check2"]
                 /\ authorized' = (authorized \/ out = "ok")
                 /\ UNCHANGED <<auth_in_progress, result>>
  /\ UNCHANGED <<otherAuthUnchanged, client, final_check, calls, trail>>

\* line 98: await self.client.send_code_request(phone_number)
SendCodeRequest(self) ==
  /\ pc[self] = "a_send_code"
  /\ trail' = [trail EXCEPT ![self] =
                 Append(@, Step("send_code_request", phone_number[self],
                                PyNone))]
  /\ \E ok \in BOOLEAN :
       /\ last' = Ev("send_code_request", self, NoId,
                     IF ok THEN "ok" ELSE "error", phone_number[self])
       /\ IF ok
            THEN /\ pc' = [pc EXCEPT ![self] = "a_get_code"]
                 /\ UNCHANGED <<auth_in_progress, result>>
            ELSE AuthReturn(self, "False")
  /\ UNCHANGED <<otherAuthUnchanged, client, authorized, final_check, signal,
                 calls>>

\* line 102: await self.client.sign_in(phone_number, code)
SignIn(self) ==
  /\ pc[self] = "a_sign_in"
  /\ trail' = [trail EXCEPT ![self] =
                 Append(@, Step("sign_in", phone_number[self], code[self]))]
  /\ \E ok \in BOOLEAN :
       /\ last' = Ev("sign_in", self, NoId, IF ok THEN "ok" ELSE "error",
                     code[self])
       /\ IF ok
            THEN /\ pc' = [pc EXCEPT ![self] = "a_check2"]
                 /\ authorized' = TRUE
                 /\ UNCHANGED <<auth_in_progress, result>>
            ELSE AuthReturn(self, "False") /\ UNCHANGED authorized
  /\ UNCHANGED <<otherAuthUnchanged, client, final_check, signal, calls>>

\* lines 119-124: the check after the interactive flow
Check2(self) ==
  /\ pc[self] = "a_check2"
  /\ final_check' = [final_check EXCEPT ![self] = BoolStr(authorized)]
  /\ last' = Ev("check2", self, NoId, "", PyNone)
  /\ IF InteractiveFlowOk(authorized)
       THEN /\ pc' = [pc EXCEPT ![self] = "a_final"]
            /\ UNCHANGED <<auth_in_progress, result>>
       ELSE AuthReturn(self, "False")
  /\ UNCHANGED <<otherAuthUnchanged, client, authorized, signal, calls,
                 trail>>

\* lines 127-131: the final check and the return
FinalCheck(self) ==
  /\ pc[self] = "a_final"
  /\ final_check' = [final_check EXCEPT ![self] = BoolStr(authorized)]
  /\ last' = Ev("final_check", self, NoId, "", PyNone)
  /\ AuthReturn(self, AuthOutcome(authorized))
  /\ UNCHANGED <<otherAuthUnchanged, client, authorized, signal, calls,
                 trail>>

\* the protocol endpoint may end the session at any time
SessionRevoked ==
  /\ authorized
  /\ authorized' = FALSE
  /\ last' = Ev("session_revoked", "", NoId, "", PyNone)
  /\ UNCHANGED <<otherAuthUnchanged, pc, auth_in_progress, client, result,
                 final_check, signal, calls, trail>>


(***************************************************************************)
(* TelegramUIBot.initialize and TelegramUIBot.start.                       *)
(***************************************************************************)
\* line 191: `if not await self.authenticate()` lets the start-up go on
StartProceedsMut(r) == r # "False"
StartProceeds(r) == r = "True"


\* line 143: `if not channel.strip()`
Blank(channel) == channel \in {"", " ", "  "}

startFrame == <<envVars, relayVars, bpc, auth_in_progress, authorized,
                phone_number, code, result, final_check, signal, wpc, msgs,
                calls, histVars, pl, disp, unclaimed, trail, proc>>

\* join_channels lines 147-160: a channel is kept iff get_entity succeeded;
\* a failed JoinChannelRequest is only logged
KeepsChannelMut(joined, resolved) == joined /\ resolved
KeepsChannel(joined, resolved) == resolved

\* history: one pass of the loop of join_channels
Joined(channel, blank, joined, resolved) ==
  [ch |-> channel, blank |-> blank, joined |-> joined, resolved |-> resolved]

\* start() returning False through its finally clause
StartFails ==
  /\ pc' = [pc EXCEPT !["start"] = "s_done"]
  /\ start_result' = "False"
  /\ is_running' = FALSE

\* lines 186-188 and initialize(): validate_config, create_client and
\* MessageProcessor may each raise; the check of BOT_TOKEN and CHAT_ID at
\* lines 43-46 only logs, so the outcome does not depend on them.
StartInitialize ==
  /\ pc["start"] = "s_new"
  /\ \E out \in {"ok", "validate_error", "client_error", "processor_error"} :
       /\ last' = Ev("initialize", "start", NoId, out, PyNone)
       /\ client' = IF out \in {"ok", "processor_error"}
                      THEN PyStr("client") ELSE client
       /\ IF out = "ok"
            THEN /\ pc' = [pc EXCEPT !["start"] = "a_call"]
                 /\ UNCHANGED <<start_result, is_running>>
            ELSE StartFails
  /\ UNCHANGED <<startFrame, entities, chan_idx, channel_entities,
                 handler_registered, join_log, handler_chats>>

\* lines 191-193
StartAfterAuth ==
  /\ pc["start"] = "s_after_auth"
  /\ last' = Ev("after_auth", "start", NoId, result["start"], PyNone)
  /\ IF StartProceeds(result["start"])
       THEN /\ pc' = [pc EXCEPT !["start"] = "s_check"]
            /\ UNCHANGED <<start_result, is_running>>
       ELSE StartFails
  /\ UNCHANGED <<startFrame, client, entities, chan_idx, channel_entities,
                 handler_registered, join_log, handler_chats>>

\* lines 196-199: the authorization status is only logged
StartLogCheck ==
  /\ pc["start"] = "s_check"
  /\ pc' = [pc EXCEPT !["start"] = "s_join"]
  /\ chan_idx' = 1
  /\ entities' = <<>>
  /\ join_log' = <<>>
  /\ last' = Ev("log_check", "start", NoId, "", PyNone)
  /\ UNCHANGED <<startFrame, client, channel_entities, handler_registered,
                 is_running, start_result, handler_chats>>

\* join_channels(), one configured channel per step
StartJoinChannel ==
  /\ pc["start"] = "s_join"
  /\ chan_idx <= Len(Channels)
  /\ chan_idx' = chan_idx + 1
  /\ IF Blank(Channels[chan_idx])
       THEN /\ entities' = entities
            /\ join_log' = Append(join_log, Joined(Channels[chan_idx], TRUE,
                                                   FALSE, FALSE))
            /\ last' = Ev("join_skip", "start", NoId, Channels[chan_idx],
                          PyNone)
       ELSE \E joined \in BOOLEAN, resolved \in BOOLEAN :
              /\ entities' = IF KeepsChannel(joined, resolved)
                               THEN Append(entities, Channels[chan_idx])
                               ELSE entities
              /\ join_log' = Append(join_log, Joined(Channels[chan_idx],
                                                     FALSE, joined, resolved))
              /\ last' = Ev("join_channel", "start", NoId,
                            Channels[chan_idx], PyNone)
  /\ UNCHANGED <<startFrame, pc, client, channel_entities,
                 handler_registered, is_running, start_result,
                 handler_chats>>

\* lines 203-209: channel_entities, setup_message_handler, is_running
StartSetup ==
  /\ pc["start"] = "s_join"
  /\ chan_idx > Len(Channels)
  /\ channel_entities' = entities
  /\ handler_registered' = IF entities = <<>> THEN handler_registered
                           ELSE handler_registered + 1
  /\ handler_chats' = IF entities = <<>> THEN handler_chats ELSE entities
  /\ is_running' = TRUE
  /\ pc' = [pc EXCEPT !["start"] = "s_running"]
  /\ last' = Ev("setup", "start", NoId, "", PyNone)
  /\ UNCHANGED <<startFrame, client, entities, chan_idx, start_result,
                 join_log>>

\* line 213 and the finally clause: run_until_disconnected returns or raises
StartDisconnected ==
  /\ pc["start"] = "s_running"
  /\ \E raised \in BOOLEAN :
       start_result' = IF raised THEN "False" ELSE "None"
  /\ is_running' = FALSE
  /\ pc' = [pc EXCEPT !["start"] = "s_done"]
  /\ last' = Ev("disconnected", "start", NoId, "", PyNone)
  /\ join_log' = <<>>
  /\ UNCHANGED <<startFrame, client, entities, chan_idx, channel_entities,
                 handler_registered, handler_chats>>

\* authenticate() as run by the tasks of S
AuthSteps(S) ==
  \/ \E self \in S : AuthEnter(self)
  \/ \E self \in S : ClientStart(self)
  \/ \E self \in S : Check1(self)
  \/ \E self \in S : DummySignIn(self)
  \/ \E self \in S : SendCodeRequest(self)
  \/ \E self \in S : SignIn(self)
  \/ \E self \in S : Check2(self)
  \/ \E self \in S : FinalCheck(self)
  \/ \E self \in S : BrokerStore(self)
  \/ \E self \in S : BrokerClear(self)
  \/ \E self \in S : BrokerSend(self)
  \/ \E self \in S : BrokerResume(self)

StartSteps ==
  \/ StartInitialize
  \/ StartAfterAuth
  \/ StartLogCheck
  \/ StartJoinChannel
  \/ StartSetup
  \/ StartDisconnected

MainListener == \E chat \in ChatIds, text \in Texts : MainHandler(chat, text)

WebhookListener ==
  \/ \E field \in UpdateFields, chat \in ChatIds \cup {NoId},
        text \in Texts \cup {NoText} : WebhookReceive(field, chat, text)
  \/ WebhookSet
  \/ \E kind \in MalformedBodies : WebhookMalformed(kind)

\* the program as main() runs it: one start() task, both listeners
Next ==
  \/ StartSteps
  \/ AuthSteps({"start"})
  \/ MainListener
  \/ WebhookListener
  \/ SessionRevoked

Spec == Init /\ [][Next]_vars

(***************************************************************************)
(* main(): the primary-client task and the control-surface task under      *)
(* asyncio.gather, and the teardown of the finally clause.                 *)
(***************************************************************************)
\* how the task of run_ui_bot can end: a return (lines 284, 295, 303, 342),
\* an exception re-raised at line 347, or a cancellation
UiExits == {"returned", "raised", "cancelled"}

\* line 370, asyncio.gather without return_exceptions: it ends with the
\* first exception or cancellation of a child, else when both are done
GatherEnds(ui, primary_done) ==
  \/ ui \in {"raised", "cancelled"}
  \/ ui = "returned" /\ primary_done

\* lines 382-383: `if telethon_bot_task and not telethon_bot_task.done()`
CancelsPrimaryMut(primary_done) == FALSE
CancelsPrimary(primary_done) == ~primary_done

\* what a cancellation leaves alone, and what no step of main() touches
cancelFrame == <<envVars, relayVars, result, final_check, client, authorized,
                 entities, chan_idx, channel_entities, handler_registered,
                 wpc, msgs, calls, histVars, pl, disp, unclaimed, join_log,
                 handler_chats>>
procFrame == <<cancelFrame, phone_number, code, signal, trail>>

\* the task of run_ui_bot ends; nothing of the Response Slot is touched
UiExit(how) ==
  /\ proc.main = "gather"
  /\ proc.ui = "running"
  /\ how = "returned" \/ ~Falsy(env_BOT_TOKEN)
  /\ proc' = [proc EXCEPT !.ui = how,
                          !.hung = (bpc["start"] = "b_wait")]
  /\ last' = Ev("ui_exit", "", NoId, how, PyNone)
  /\ UNCHANGED <<procFrame, pc, bpc, auth_in_progress, is_running,
                 start_result>>

\* main() leaves the gather of line 370: a child raised or was cancelled,
\* both children are done, or main() itself is interrupted (SIGINT, SIGTERM)
MainLeavesGather ==
  /\ proc.main = "gather"
  /\ \E interrupted \in BOOLEAN :
       interrupted \/ GatherEnds(proc.ui, pc["start"] = "s_done")
  /\ proc' = [proc EXCEPT !.main = "teardown"]
  /\ last' = Ev("leave_gather", "", NoId, "", PyNone)
  /\ UNCHANGED <<procFrame, pc, bpc, auth_in_progress, is_running,
                 start_result>>

\* authenticate() lines 133-137 under cancellation: CancelledError is no
\* Exception, so `except Exception` is passed by, and the finally clause
\* clears the flag
FlagAfterCancelMut(flag) == flag
FlagAfterCancel(flag) == FALSE

\* a task is cancelled at the await it is suspended in: the CancelledError
\* leaves request_input_via_bot, authenticate() (through its finally clause)
\* and, in the primary-client task, start() (through its finally clause);
\* the locals of authenticate() go with its frame
CancelEffect(self) ==
  /\ pc' = [pc EXCEPT ![self] = IF self = "start" THEN "s_done" ELSE "idle"]
  /\ bpc' = [bpc EXCEPT ![self] = "none"]
  /\ auth_in_progress' = IF pc[self] \in AuthBodyPcs
                           THEN FlagAfterCancel(auth_in_progress)
                           ELSE auth_in_progress
  /\ phone_number' = [phone_number EXCEPT ![self] = PyNone]
  /\ code' = [code EXCEPT ![self] = PyNone]
  /\ signal' = [signal EXCEPT ![self] = "none"]
  /\ trail' = [trail EXCEPT ![self] = <<>>]
  /\ IF self = "start"
       THEN is_running' = FALSE /\ start_result' = "cancelled"
       ELSE UNCHANGED <<is_running, start_result>>

\* lines 380-395: the finally clause of main() cancels the tasks that are
\* not done
Teardown ==
  /\ proc.main = "teardown"
  /\ proc' = [proc EXCEPT !.main = "done",
                          !.ui = IF @ = "running" THEN "cancelled" ELSE @]
  /\ IF CancelsPrimary(pc["start"] = "s_done")
       THEN CancelEffect("start")
       ELSE UNCHANGED <<pc, bpc, auth_in_progress, is_running, start_result,
                        phone_number, code, signal, trail>>
  /\ last' = Ev("teardown", "start", NoId, "", PyNone)
  /\ UNCHANGED cancelFrame

\* a task inside authenticate() is cancelled (task.cancel(), as line 409
\* does for every task of the loop)
TaskCancelled(self) ==
  /\ pc[self] \in AuthBodyPcs
  /\ CancelEffect(self)
  /\ last' = Ev("cancelled", self, NoId, "", PyNone)
  /\ UNCHANGED <<cancelFrame, proc>>

ProcSteps ==
  \/ \E how \in UiExits : UiExit(how)
  \/ MainLeavesGather
  \/ Teardown

\* main() with its two tasks and the teardown
NextTeardown ==
  \/ StartSteps
  \/ AuthSteps({"start"})
  \/ MainListener
  \/ ProcSteps

SpecTeardown == Init /\ [][NextTeardown]_vars

\* the coordinator with a second caller of authenticate()
NextGuard ==
  \/ StartSteps
  \/ AuthSteps(Tasks)
  \/ MainListener

SpecGuard == Init /\ [][NextGuard]_vars

\* the coordinator alone: initialize(), then authenticate() as called by
\* start() and by a second caller, either of which may be cancelled
NextCancel ==
  \/ StartInitialize
  \/ AuthSteps(Tasks)
  \/ MainListener
  \/ \E self \in Tasks : TaskCancelled(self)

SpecCancel == Init /\ [][NextCancel]_vars

(***************************************************************************)
(* Message Pipeline (attached_assets/main.py).  A text is a sequence of    *)
(* characters; the Persian letters of the keyword list are written by      *)
(* name.                                                                   *)
(***************************************************************************)
UpperCase == <<"A", "B", "C", "D", "E", "F", "G", "H", "I", "J", "K", "L",
               "M", "N", "O", "P", "Q", "R", "S", "T", "U", "V", "W", "X",
               "Y", "Z">>
LowerCase == <<"a", "b", "c", "d", "e", "f", "g", "h", "i", "j", "k", "l",
               "m", "n", "o", "p", "q", "r", "s", "t", "u", "v", "w", "x",
               "y", "z">>
PersianLetters == {"fe", "re", "alef", "nun", "te", "tah", "hah", "yeh", "be"}
DigitChars == {Digits[i] : i \in 1..10}

\* str.lower() on one character
LowerChar(c) ==
  IF \E i \in 1..26 : UpperCase[i] = c
    THEN LowerCase[CHOOSE i \in 1..26 : UpperCase[i] = c]
    ELSE c

\* str.lower()
Lower(text) == [i \in 1..Len(text) |-> LowerChar(text[i])]

\* `k in text` for strings
IsSubstring(k, text) ==
  \E i \in 1..(Len(text) - Len(k) + 1) : SubSeq(text, i, i + Len(k) - 1) = k

Keywords == { <<"U", "I">>, <<"U", "X">>,
              <<"i", "n", "t", "e", "r", "f", "a", "c", "e">>,
              <<"f", "i", "g", "m", "a">>,
              <<"fe", "re", "alef", "nun", "te">>,
              <<"tah", "re", "alef", "hah", "yeh", " ", "re", "alef", "be",
                "tah">> }

\* any(k.lower() in text.lower() for k in keywords)
contains_ui_keywords(text) ==
  \E k \in Keywords : IsSubstring(Lower(k), Lower(text))

\* the character class [\w\d_] of the pattern
WordChar(c) ==
  \/ \E i \in 1..26 : c = UpperCase[i] \/ c = LowerCase[i]
  \/ c \in DigitChars
  \/ c \in PersianLetters
  \/ c = "_"

\* the end of the longest run of word characters starting at position i
RECURSIVE RunEnd(_, _)
RunEnd(text, i) ==
  IF i < Len(text) /\ WordChar(text[i + 1]) THEN RunEnd(text, i + 1) ELSE i

\* re.search(r'@[\w\d_]+', text): the leftmost match, greedy; <<>> is None
extract_username(text) ==
  LET starts == {i \in 1..(Len(text) - 1) :
                   text[i] = "@" /\ WordChar(text[i + 1])}
  IN IF starts = {} THEN <<>>
     ELSE LET i == CHOOSE m \in starts : \A n \in starts : m <= n
          IN SubSeq(text, i, RunEnd(text, i + 1))

Posts == { <<"U", "I", " ", "@", "b", "o">>,
           <<"F", "i", "g", "m", "a", ",", "@", "a", "_", "1", " ", "@", "z">>,
           <<"u", "x", " ", "j", "o", "b", " ", "@">>,
           <<"h", "i", " ", "@", "b", "o">>,
           <<"fe", "re", "alef", "nun", "te", " ", "@", "yeh">> }

PortfolioUrl == "https://portfolio"
\* line 75: the fixed fallback text of generate_custom_message
FallbackApology == <<"apology">>
Draft == <<"draft">>
\* line 88, line 92 and line 95: the caption and the two text-only fallbacks
Caption == <<"caption", PortfolioUrl>>
FileErrorNotice == <<"file_error", PortfolioUrl>>
FileMissingNotice == <<"file_missing", PortfolioUrl>>

Sent(to, kind, body) == [to |-> to, kind |-> kind, body |-> body]

plFrame == <<envVars, relayVars, authVars, startVars, wpc, msgs, calls,
             histVars, disp, unclaimed, trail, proc, join_log, handler_chats>>

\* process_new_message lines 119-121: `if contains_ui_keywords(text)` and
\* then `if username`
PostMatchesMut(text) == contains_ui_keywords(text)
PostMatches(text) ==
  contains_ui_keywords(text) /\ extract_username(text) # <<>>

\* generate_custom_message lines 71-75: the draft, or the fixed fallback
\* text when the generative call raises
MessageOrFallbackMut(ok) == Draft
MessageOrFallback(ok) == IF ok THEN Draft ELSE FallbackApology

\* send_message_to_user line 82 comes before lines 86-95: the first
\* delivery step after get_entity is the text send
FirstDeliveryMut == "sending_file"
FirstDelivery == "sending_text"

\* lines 87-92: the text-only fallback follows send_file only when it raised
FallbackNeededMut(file_ok) == TRUE
FallbackNeeded(file_ok) == ~file_ok

\* process_new_message lines 118-121: the filter and the extraction
PlReceive(text) ==
  /\ pl.pc = "idle"
  /\ pl.posts < MaxPosts
  /\ LET username == extract_username(text)
         matched == PostMatches(text)
     IN pl' = [pl EXCEPT !.pc = IF matched THEN "generating" ELSE "idle",
                         !.text = text,
                         !.username = IF contains_ui_keywords(text)
                                        THEN username ELSE <<>>,
                         !.msg = <<>>,
                         !.entity = <<>>,
                         !.gen = "none",
                         !.sent = <<>>,
                         !.attempts = <<>>,
                         !.posts = @ + 1,
                         !.gen_calls = 0,
                         !.reason = "none",
                         !.outcome = IF matched THEN "none" ELSE "discarded"]
  /\ last' = Ev("post", "", NoId, "", PyNone)
  /\ UNCHANGED plFrame

\* generate_custom_message: the generative call succeeds or raises
PlGenerate ==
  /\ pl.pc = "generating"
  /\ \E ok \in BOOLEAN :
       pl' = [pl EXCEPT !.pc = "resolving",
                        !.gen_calls = @ + 1,
                        !.gen = IF ok THEN "ok" ELSE "failed",
                        !.msg = MessageOrFallback(ok)]
  /\ last' = Ev("generate", "", NoId, "", PyNone)
  /\ UNCHANGED plFrame

\* send_message_to_user line 79: get_entity; its exception escapes
PlResolve ==
  /\ pl.pc = "resolving"
  /\ \E ok \in BOOLEAN :
       pl' = IF ok THEN [pl EXCEPT !.pc = FirstDelivery,
                                   !.entity = <<"entity">> \o pl.username]
             ELSE [pl EXCEPT !.pc = "idle", !.outcome = "raised"]
  /\ last' = Ev("get_entity", "", NoId, "", PyNone)
  /\ UNCHANGED plFrame

\* lines 82-86: the text send (its exception escapes), then os.path.exists
PlSendText ==
  /\ pl.pc = "sending_text"
  /\ \E ok \in BOOLEAN, exists \in BOOLEAN :
       pl' = IF ok
               THEN [pl EXCEPT
                       !.attempts = Append(@, Sent(pl.entity, "text", pl.msg)),
                       !.sent = Append(@, Sent(pl.entity, "text", pl.msg)),
                       !.pc = IF exists THEN "sending_file"
                              ELSE "sending_fallback",
                       !.reason = IF exists THEN "none" ELSE "missing"]
               ELSE [pl EXCEPT
                       !.attempts = Append(@, Sent(pl.entity, "text", pl.msg)),
                       !.pc = "idle", !.outcome = "raised"]
  /\ last' = Ev("send_message", "", NoId, "", PyNone)
  /\ UNCHANGED plFrame

\* lines 87-92: send_file; a failure is caught and answered by a fallback
PlSendFile ==
  /\ pl.pc = "sending_file"
  /\ \E ok \in BOOLEAN :
       pl' = [pl EXCEPT
                !.attempts = Append(@, Sent(pl.entity, "file", Caption)),
                !.sent = IF ok THEN Append(@, Sent(pl.entity, "file", Caption))
                         ELSE @,
                !.reason = IF ok THEN @ ELSE "error",
                !.pc = IF FallbackNeeded(ok) THEN "sending_fallback"
                       ELSE "idle",
                !.outcome = IF FallbackNeeded(ok) THEN @ ELSE "done"]
  /\ last' = Ev("send_file", "", NoId, "", PyNone)
  /\ UNCHANGED plFrame

\* line 92 and line 95: the text-only fallback; its exception escapes
PlSendFallback ==
  /\ pl.pc = "sending_fallback"
  /\ \E ok \in BOOLEAN :
       LET notice == Sent(pl.entity, "text",
                          IF pl.reason = "error" THEN FileErrorNotice
                          ELSE FileMissingNotice)
       IN pl' = IF ok
                  THEN [pl EXCEPT !.attempts = Append(@, notice),
                                  !.sent = Append(@, notice),
                                  !.pc = "idle", !.outcome = "done"]
                  ELSE [pl EXCEPT !.attempts = Append(@, notice),
                                  !.pc = "idle", !.outcome = "raised"]
  /\ last' = Ev("send_fallback", "", NoId, "", PyNone)
  /\ UNCHANGED plFrame

NextPipeline ==
  \/ \E text \in Posts : PlReceive(text)
  \/ PlGenerate
  \/ PlResolve
  \/ PlSendText
  \/ PlSendFile
  \/ PlSendFallback

SpecPipeline == Init /\ [][NextPipeline]_vars

----------------------------------------------------------------------------
\* The channel-watch dispatcher of main.py (setup_message_handler).

\* retry-after values carried by FloodWaitError (e.seconds)
FloodSeconds == {1, 2}

\* what `await self.message_processor.process_message(event, self.client)`
\* can do to message_handler: return, raise FloodWaitError, raise another
\* Exception
ProcessOutcomes == {"ok", "flood", "error"}

\* line 177: `await asyncio.sleep(e.seconds)`
SleepSecondsMut(n) == 0
SleepSeconds(n) == n

\* lines 175-179: after the sleep the handler ends; it does not call
\* process_message again
RetryAfterFloodMut == TRUE
RetryAfterFlood == FALSE

\* The client built by session_handler.create_client hands an update to the
\* handler only when the previous handler call has ended, so a sleeping
\* handler suspends message handling as a whole.
DispatcherFree(d) == d.pc = "idle"

dispFrame == <<envVars, relayVars, authVars, startVars, wpc, msgs, calls, last,
               histVars, pl, unclaimed, trail, proc, join_log, handler_chats>>

Started(ev) == [ev |-> ev, at |-> disp.now]

\* line 170: @self.client.on(events.NewMessage(chats=self.channel_entities))
DispRegister ==
  /\ ~disp.registered
  /\ disp' = [disp EXCEPT !.registered = TRUE]
  /\ UNCHANGED dispFrame

\* a new post of a monitored channel reaches the client
DispArrive ==
  /\ disp.registered
  /\ disp.events < MaxEvents
  /\ disp' = [disp EXCEPT !.events = @ + 1,
                          !.queue = Append(@, disp.events + 1),
                          !.arrived = Append(@, disp.now)]
  /\ UNCHANGED dispFrame

\* lines 171-173: message_handler is called with the next event and calls
\* process_message
DispDispatch ==
  /\ DispatcherFree(disp)
  /\ disp.queue # <<>>
  /\ disp' = [disp EXCEPT !.queue = Tail(@),
                          !.cur = Head(disp.queue),
                          !.pc = "processing",
                          !.starts = Append(@, Started(Head(disp.queue)))]
  /\ UNCHANGED dispFrame

\* lines 173-179: process_message returns or raises
DispProcess(outcome, seconds) ==
  /\ disp.pc = "processing"
  /\ disp' = IF outcome = "flood"
               THEN [disp EXCEPT !.pc = "sleeping",
                                 !.wake_at = disp.now + SleepSeconds(seconds),
                                 !.flooded = TRUE,
                                 !.flood_at = disp.now,
                                 !.flood_secs = seconds,
                                 !.flood_idx = Len(disp.starts)]
               ELSE [disp EXCEPT !.pc = "idle", !.cur = 0]
  /\ UNCHANGED dispFrame

\* line 177 returns once the delay has elapsed, and the handler ends
DispWake ==
  /\ disp.pc = "sleeping"
  /\ disp.now >= disp.wake_at
  /\ disp' = IF RetryAfterFlood
               THEN [disp EXCEPT !.pc = "processing",
                                 !.starts = Append(@, Started(disp.cur))]
               ELSE [disp EXCEPT !.pc = "idle", !.cur = 0]
  /\ UNCHANGED dispFrame

\* one time unit passes
Tick ==
  /\ disp.registered
  /\ disp.now < MaxTime
  /\ disp' = [disp EXCEPT !.now = @ + 1]
  /\ UNCHANGED dispFrame

NextDispatch ==
  \/ DispRegister
  \/ DispArrive
  \/ DispDispatch
  \/ \E outcome \in ProcessOutcomes, seconds \in FloodSeconds :
       DispProcess(outcome, seconds)
  \/ DispWake
  \/ Tick

SpecDispatch == Init /\ [][NextDispatch]_vars

(***************************************************************************)
(* Properties.                                                             *)
(***************************************************************************)
\* C1: when exactly one message, with text t, from the authorized chat was
\* handled by a listener after the clear of request_input_via_bot, the call
\* returns exactly t.
C1_ReturnsCapturedText ==
  (/\ last.kind = "broker_return"
   /\ msgs = 1
   /\ Len(handled_since_clear) = 1
   /\ ~overlap)
  => last.val = PyStr(handled_since_clear[1])

\* C2: once a listener has handled a message from the authorized chat, the
\* slot the broker reads (ui_bot_handler.user_response, response_event) holds
\* that message's text and is ready.
C2_SlotHoldsLatestText ==
  last.kind \in {"main_set", "webhook_set"}
  => /\ ui_user_response = PyStr(last.text)
     /\ response_event

\* C3: a control message whose chat id, as a string, differs from the
\* configured chat id leaves the value, the ready flag and every suspended
\* broker as they were, whichever listener handles it.
C3_UnauthorizedLeavesSlot ==
  [][(/\ msgs' = msgs + 1
      /\ ChatIdStr(last'.chat) # env_CHAT_ID)
     => UNCHANGED <<ui_user_response, main_user_response, response_event,
                    bpc>>]_vars

C3_Witness ==
  /\ last.kind = "webhook_rejected"
  /\ last.chat = -7
  /\ bpc["start"] = "b_wait"
  /\ ~response_event

\* C4: request_input_via_bot returns only after some listener has set the
\* event since the clear of that same call.
C4_NoSpuriousWake ==
  last.kind = "broker_return" => sets_since_clear >= 1

\* the second request of a run returns: the set that satisfied the first
\* request was cleared and a later one satisfied this request
C4_Witness ==
  /\ last.kind = "broker_return"
  /\ broker_calls["start"] = 2
  /\ sets_since_clear = 1

\* C5: at most one authenticate() call is past the guard, so at most one
\* request_input_via_bot call is outstanding; a call made meanwhile returns
\* at once, having touched neither the client nor the broker.
C5_SingleAuthInFlight ==
  /\ Cardinality({t \in Tasks : pc[t] \in AuthBodyPcs}) <= 1
  /\ Cardinality({t \in Tasks : bpc[t] # "none"}) <= 1
  /\ last.kind = "auth_rejected"
     => /\ pc[last.task] \notin AuthBodyPcs
        /\ bpc[last.task] = "none"
        /\ result[last.task] = "None"
        /\ auth_in_progress

C5_Witness ==
  /\ last.kind = "auth_rejected"
  /\ \E t \in Tasks : bpc[t] = "b_wait"

\* C6: start() joins channels, registers the handler and sets is_running
\* only after authenticate() returned True, and authenticate() returns True
\* only when its final is_user_authorized() check was true.
C6_MonitoringOnlyAfterAuthorized ==
  /\ pc["start"] \in {"s_check", "s_join", "s_running"}
     => result["start"] = "True"
  /\ (is_running \/ handler_registered > 0 \/ channel_entities # <<>>
      \/ chan_idx > 0)
     => result["start"] = "True"
  /\ \A t \in Tasks : result[t] = "True" => final_check[t] = "True"

C6_Witness ==
  /\ is_running
  /\ handler_registered = 1
  /\ result["start"] = "True"
  /\ result["caller"] = "None"

\* C7: when the prompt cannot be sent, request_input_via_bot aborts: it does
\* not wait on the slot and returns no value.
C7_FailedPromptAbortsRequest ==
  \A t \in Tasks :
    send_failed[t]
    => /\ bpc[t] \notin {"b_wait", "b_woken"}
       /\ ~(last.kind = "broker_return" /\ last.task = t)

C9_MissingControlConfigIsFatal ==
  (Falsy(env_BOT_TOKEN) \/ Falsy(env_CHAT_ID))
  => /\ pc["start"] \notin AuthBodyPcs
     /\ result["start"] = "unset"

\* C10: once a post passed the keyword filter and a handle was extracted,
\* the target has received at least one message when the pipeline is through
\* with the post, whatever failed on the way.
C10_TargetAlwaysReceivesReply ==
  pl.outcome \in {"done", "raised"} => Len(pl.sent) >= 1

\* C18 as stated: the /webhook route answers {"ok": true}, 200, to every
\* request body.
C18_EveryBodyAnsweredOk ==
  last.kind \in {"webhook_no_message", "webhook_rejected", "webhook_set",
                 "webhook_malformed"}
  => wpc.reply = OkReply

\* C18 as amended: the route answers {"ok": true}, 200, to every
\* provider-shaped JSON body, whether it carries no message, a message of
\* the authorized chat or a message of another chat.
C18_ProviderShapedBodyAnsweredOk ==
  last.kind \in {"webhook_no_message", "webhook_rejected", "webhook_set"}
  => wpc.reply = OkReply

C18_Witness ==
  /\ last.kind = "webhook_rejected"
  /\ last.chat = -7
  /\ wpc.reply = OkReply

\* C19 as stated: the text of an authorized message handled while no caller
\* was suspended is claimed by the next wait, so no wait suspends while such
\* a text is unclaimed.
C19_StoredTextClaimedByNextWait ==
  unclaimed # PyNone => \A t \in Tasks : bpc[t] # "b_wait"

\* C19 as amended: request_input_via_bot clears the ready flag before it
\* waits, so a wait is suspended only while nothing was set since that
\* clear, and a call returns only after a set made since its own clear; a
\* message handled before the call is not claimed by it.
C19_StaleTextNotClaimed ==
  /\ \A t \in Tasks :
       bpc[t] = "b_wait" => ~response_event /\ sets_since_clear = 0
  /\ last.kind = "broker_return" => sets_since_clear >= 1 /\ unclaimed = PyNone

\* a text was set before the call began; the call cleared the slot and is
\* suspended
C19_Witness ==
  /\ unclaimed # PyNone
  /\ bpc["start"] = "b_wait"
  /\ ui_user_response = PyNone
  /\ ~response_event

\* C20: when two authorized messages t1 then t2 were handled after the clear
\* and before request_input_via_bot resumed, the call returns t2.
C20_LastWriterWins ==
  (/\ last.kind = "broker_return"
   /\ msgs = 2
   /\ Len(handled_since_clear) = 2
   /\ ~overlap)
  => last.val = PyStr(handled_since_clear[2])

\* C13: an error raised while processing one post does not escape the event
\* handler.  The handler of attached_assets/main.py (lines 139-141) awaits
\* process_new_message with no try/except, so outcome "raised" is an
\* exception leaving the handler.
C13_NoExceptionEscapesHandler == pl.outcome # "raised"

\* the send calls of the post in hand that carry the portfolio-link notices
FallbackAttempts ==
  {i \in 1..Len(pl.attempts) :
     pl.attempts[i].body \in {FileErrorNotice, FileMissingNotice}}

\* C14: no generative call and no send is made for a post unless its text
\* contains a keyword (case-insensitive) and an @handle-shaped token; a post
\* failing either check is discarded without error.
C14_OnlyMatchedPostsAreAnswered ==
  LET text == pl.text
      has_keyword == \E k \in Keywords : IsSubstring(Lower(k), Lower(text))
      has_handle == \E i \in 1..(Len(text) - 1) :
                      text[i] = "@" /\ WordChar(text[i + 1])
  IN /\ (pl.gen_calls > 0 \/ pl.attempts # <<>> \/ pl.pc # "idle")
          => has_keyword /\ has_handle
     /\ (pl.posts > 0 /\ ~(has_keyword /\ has_handle))
          => pl.outcome = "discarded" /\ pl.pc = "idle"

\* a post with a keyword and no handle was discarded
C14_Witness ==
  /\ pl.text = <<"u", "x", " ", "j", "o", "b", " ", "@">>
  /\ pl.outcome = "discarded"
  /\ pl.gen_calls = 0
  /\ pl.attempts = <<>>

\* C15: the first send call of a matched post is the drafted text; the
\* attachment with the portfolio caption and the fallback notices come only
\* after it, and every send call goes to the entity resolved for the handle.
C15_TextBeforeAttachment ==
  /\ pl.attempts # <<>> =>
       pl.attempts[1] = Sent(<<"entity">> \o pl.username, "text", pl.msg)
  /\ \A i \in 1..Len(pl.attempts) :
       /\ pl.attempts[i].to = <<"entity">> \o pl.username
       /\ (pl.attempts[i].kind = "file" \/ i \in FallbackAttempts)
            => /\ i > 1
               /\ pl.sent # <<>>
               /\ pl.sent[1] = pl.attempts[1]
       /\ pl.attempts[i].kind = "file" => pl.attempts[i].body = Caption

C15_Witness ==
  /\ pl.outcome = "done"
  /\ Len(pl.sent) = 2
  /\ pl.sent[1].kind = "text"
  /\ pl.sent[1].body = Draft
  /\ pl.sent[2].kind = "file"
  /\ pl.sent[2].to = pl.sent[1].to

\* C16: when the generative call fails the pipeline goes on to delivery,
\* the text sent is the fixed fallback apology, and the attachment step
\* follows the text send as after a successful draft.
C16_GenerativeFailureSendsApology ==
  /\ last.kind = "generate" => pl.pc = "resolving" /\ pl.outcome = "none"
  /\ pl.gen = "failed" =>
       /\ pl.msg = FallbackApology
       /\ pl.attempts # <<>> =>
            pl.attempts[1] =
              Sent(<<"entity">> \o pl.username, "text", FallbackApology)
       /\ pl.outcome = "done" =>
            /\ Len(pl.sent) = 2
            /\ pl.sent[1].body = FallbackApology
            /\ pl.sent[2].body \in {Caption, FileErrorNotice, FileMissingNotice}

C16_Witness ==
  /\ pl.gen = "failed"
  /\ pl.outcome = "done"
  /\ pl.sent[1].body = FallbackApology
  /\ pl.sent[2].kind = "file"

StartsAfterFlood == (disp.flood_idx + 1)..Len(disp.starts)

C12_TriggeringEventNotReprocessed ==
  /\ \A i, j \in 1..Len(disp.starts) :
       disp.starts[i].ev = disp.starts[j].ev => i = j
  /\ \A k \in 1..Len(disp.queue), i \in 1..Len(disp.starts) :
       disp.queue[k] # disp.starts[i].ev
  /\ disp.flooded =>
       \A i \in StartsAfterFlood :
         disp.starts[i].ev # disp.starts[disp.flood_idx].ev

\* the pause is over, the handler of the triggering event has ended, and a
\* later event has been processed
C12_Witness ==
  /\ disp.flooded
  /\ disp.pc = "idle"
  /\ disp.now >= disp.flood_at + disp.flood_secs
  /\ StartsAfterFlood # {}
  /\ disp.queue = <<>>

\* the values request_input_via_bot can return
BrokerValues == {PyNone} \cup {PyStr(t) : t \in Texts \cup {""}}

\* the interactive steps of a run that obtained phone p and code c
InteractiveOrder(p, c) ==
  << Step("prompt_phone", PyNone, PyNone),
     Step("phone", p, PyNone),
     Step("send_code_request", p, PyNone),
     Step("prompt_code", PyNone, PyNone),
     Step("code", c, PyNone),
     Step("sign_in", p, c) >>

\* C21: within one authenticate() run the interactive steps are, in order,
\* the phone prompt, send_code_request with the phone the broker returned,
\* the code prompt, and sign_in with the phone and the code the two broker
\* calls returned: the steps taken so far are always a prefix of that order.
C21_InteractiveStepsInOrder ==
  \A t \in Tasks :
    \E p \in BrokerValues, c \in BrokerValues :
      /\ Len(trail[t]) <= 6
      /\ trail[t] = SubSeq(InteractiveOrder(p, c), 1, Len(trail[t]))

\* a run went through all four steps with the texts sent to /webhook
C21_Witness ==
  /\ Len(trail["start"]) = 6
  /\ trail["start"][6] = Step("sign_in", PyStr("+15550100"), PyStr("12345"))
  /\ last.kind = "sign_in"

\* C22: when the control-surface task ends or is cancelled while
\* authenticate() is suspended in the wait of request_input_via_bot, the
\* wait stays suspended, with the event clear, until the teardown of main()
\* has run; the teardown cancels the primary-client task, which ends the
\* wait.
C22_WaitHangsUntilTeardown ==
  /\ (proc.hung /\ proc.main # "done")
       => /\ bpc["start"] = "b_wait"
          /\ pc["start"] \in {"a_get_phone", "a_get_code"}
          /\ ~response_event
  /\ proc.main = "done"
       => /\ pc["start"] = "s_done"
          /\ bpc["start"] = "none"

\* run_ui_bot raised while the phone prompt was unanswered, and the teardown
\* cancelled the primary-client task out of the wait
C22_Witness ==
  /\ proc.hung
  /\ proc.ui = "raised"
  /\ proc.main = "done"
  /\ start_result = "cancelled"
  /\ bpc["start"] = "none"

\* C24: _auth_in_progress is true exactly while one authenticate() call is
\* inside its try block; every way out of the call (a return, a caught
\* exception, a cancellation) leaves it false, and a rejected re-entrant
\* call leaves it true for the call that is active.
C24_FlagTracksActiveAttempt ==
  /\ auth_in_progress <=> (\E t \in Tasks : pc[t] \in AuthBodyPcs)
  /\ Cardinality({t \in Tasks : pc[t] \in AuthBodyPcs}) <= 1
  /\ last.kind = "auth_rejected"
       => /\ auth_in_progress
          /\ \E t \in Tasks \ {last.task} : pc[t] \in AuthBodyPcs
  /\ last.kind \in {"cancelled", "final_check", "auth_error",
                    "broker_value_error"}
       => ~auth_in_progress

\* the call of start() was cancelled inside authenticate(), and a later call
\* passed the guard
C24_Witness ==
  /\ start_result = "cancelled"
  /\ last.kind = "auth_enter"
  /\ last.task = "caller"
  /\ auth_in_progress

\* the channels join_channels() is to return for what it met: those that are
\* not blank and whose get_entity succeeded, in the order of the configuration
RECURSIVE ResolvedOf(_)
ResolvedOf(log) ==
  IF log = <<>> THEN <<>>
  ELSE LET rest == ResolvedOf(SubSeq(log, 1, Len(log) - 1))
           e == log[Len(log)]
       IN IF ~e.blank /\ e.resolved THEN Append(rest, e.ch) ELSE rest

\* C23: join_channels() returns the configured non-blank channels whose
\* get_entity succeeded, in configuration order, whether or not the join
\* request succeeded; setup_message_handler registers one handler over all of
\* them, and none when there is none.
C23_MonitoredSetIsResolvedChannels ==
  /\ pc["start"] \in {"s_join", "s_running"}
       => /\ Len(join_log) = chan_idx - 1
          /\ \A i \in 1..Len(join_log) :
                /\ join_log[i].ch = Channels[i]
                /\ join_log[i].blank = Blank(Channels[i])
          /\ entities = ResolvedOf(join_log)
  /\ pc["start"] = "s_running"
       => /\ chan_idx = Len(Channels) + 1
          /\ channel_entities = ResolvedOf(join_log)
  /\ handler_registered = (IF channel_entities = <<>> THEN 0 ELSE 1)
  /\ handler_chats = channel_entities

\* the join of jobs_a failed and its entity was resolved, the entity of jobs_b
\* was not resolved: one handler over jobs_a alone
C23_Witness ==
  /\ pc["start"] = "s_running"
  /\ join_log[1] = Joined("jobs_a", FALSE, FALSE, TRUE)
  /\ join_log[3] = Joined("jobs_b", FALSE, TRUE, FALSE)
  /\ channel_entities = <<"jobs_a">>
  /\ handler_registered = 1
  /\ handler_chats = <<"jobs_a">>

\* C25: one authorized reply handled after the clear of line 30 and before
\* the wait of line 35, with no other reply being handled, is not lost: the
\* event is set when the wait is reached, the wait returns without
\* suspending, and request_input_via_bot returns the text of that reply.
C25_ReplyDuringSendIsKept ==
  /\ \A t \in Tasks :
        (bpc[t] = "b_send" /\ sets_since_clear >= 1) => response_event
  /\ (/\ last.kind = "broker_return"
      /\ last.text = "immediate"
      /\ sets_since_clear = 1
      /\ Len(handled_since_clear) = 1
      /\ ~overlap
      /\ wpc.pc = "idle")
       => last.val = PyStr(handled_since_clear[1])

\* C26: the /webhook route stores the text of every update of the authorized
\* chat that carries a message or an edited message, and "" when the message
\* has no text; it then sets the event, so no caller stays suspended, and a
\* call that was answered by one text-less update alone returns "".
C26_TextlessUpdateReleasesWithEmpty ==
  /\ last.kind \in {"webhook_store", "webhook_rejected"}
       => /\ HasMessage(last.field)
          /\ (last.kind = "webhook_store")
                <=> WebhookChatMatches(last.chat, env_CHAT_ID)
  /\ last.kind = "webhook_store"
       => /\ ui_user_response =
                (IF last.val = PyNone THEN PyStr("") ELSE last.val)
          /\ wpc.pc = "w_set"
  /\ last.kind = "webhook_set"
       => /\ response_event
          /\ \A t \in Tasks : bpc[t] # "b_wait"
  /\ (/\ last.kind = "broker_return"
      /\ main_user_response = PyNone
      /\ sets_since_clear = 1
      /\ handled_since_clear = <<"">>
      /\ ~overlap
      /\ wpc.pc = "idle")
       => last.val = PyStr("")

\* a call suspended in the wait was released by an update of the authorized
\* chat without text, and returned "" as the phone number
C26_Witness ==
  /\ last.kind = "broker_return"
  /\ last.text = "resumed"
  /\ last.val = PyStr("")
  /\ main_user_response = PyNone
  /\ handled_since_clear = <<"">>
  /\ phone_number["start"] = PyStr("")

=============================================================================
